---- MODULE Spec2Model ----
(***************************************************************************)
(* Model of fyrox-sound/src/effects/mod.rs: the Attenuate effect, the      *)
(* Effect tagged union with its static dispatch, and the EffectWrapper.    *)
(*                                                                         *)
(* f32 values are modelled by small integers (every value used here is     *)
(* exactly representable in f32 and no product leaves the exact range), so *)
(* f32 multiplication is integer multiplication and f32::max is the        *)
(* integer maximum.  A sample frame (f32, f32) is a pair <<left, right>>,  *)
(* a buffer a sequence of frames.                                          *)
(***************************************************************************)
EXTENDS Integers, Sequences, FiniteSets, TLC

\* Longest buffer handed to render.
MaxLen == 2
\* Gain arguments and stored gains in saved data range over -MaxGain..MaxGain.
MaxGain == 2

Gains == (0 - MaxGain)..MaxGain

\* Frames of the input buffers: left and right differ in every frame.
Frames == {<<1, -1>>, <<2, 3>>}
\* What an output buffer may hold before a call; <<7, -7>> is not the
\* product of any input frame with any gain of the model.
StaleFrames == {<<0, 0>>, <<7, -7>>}
ZeroFrame == <<0, 0>>

Min(a, b) == IF a <= b THEN a ELSE b

BufsOfLen(S, n) == [1..n -> S]
Bufs(S, n) == UNION {BufsOfLen(S, k) : k \in 0..n}
\* The input buffers, and the output buffers as the caller hands them in:
\* filled with one stale frame.
Fill(frame, n) == [i \in 1..n |-> frame]
InputBufs == Bufs(Frames, MaxLen)
OutputBufs == {Fill(f, k) : f \in StaleFrames, k \in 0..MaxLen}

\* The variant tags of Effect, in declaration order.
Kinds == <<"Attenuate", "Reverb", "LowPassFilter", "HighPassFilter",
           "BandPassFilter", "AllPassFilter", "LowShelfFilter",
           "HighShelfFilter">>
KindSet == {Kinds[i] : i \in 1..Len(Kinds)}
NameKeys == {"a", "b"}

----------------------------------------------------------------------------
(* Attenuate *)

\* impl Default for Attenuate: gain 1.0
AttenuateDefaultZeroGain == [gain |-> 0]
AttenuateDefault == [gain |-> 1]

\* Attenuate::new: gain.max(0.0)
AttenuateNewNoClamp(gain) == [gain |-> gain]
AttenuateNew(gain) == [gain |-> IF gain >= 0 THEN gain ELSE 0]

\* Attenuate::render: input.iter().zip(output.iter_mut()) visits the first
\* min(len(input), len(output)) index pairs; every other output frame is
\* not touched.  self is not assigned.
AttenuateRenderLeftOnly(self, input, output) ==
    [self |-> self,
     output |-> [i \in 1..Len(output) |->
                    IF i <= Min(Len(input), Len(output))
                    THEN <<input[i][1] * self.gain, input[i][1] * self.gain>>
                    ELSE output[i]]]
AttenuateRenderDecay(self, input, output) ==
    [self |-> [gain |-> IF Len(input) > 0 /\ self.gain > 0
                        THEN self.gain - 1 ELSE self.gain],
     output |-> [i \in 1..Len(output) |->
                    IF i <= Min(Len(input), Len(output))
                    THEN <<input[i][1] * self.gain, input[i][2] * self.gain>>
                    ELSE output[i]]]
AttenuateRenderClearsTail(self, input, output) ==
    [self |-> self,
     output |-> [i \in 1..Len(output) |->
                    IF i <= Min(Len(input), Len(output))
                    THEN <<input[i][1] * self.gain, input[i][2] * self.gain>>
                    ELSE ZeroFrame]]
AttenuateRender(self, input, output) ==
    [self |-> self,
     output |-> [i \in 1..Len(output) |->
                    IF i <= Min(Len(input), Len(output))
                    THEN <<input[i][1] * self.gain, input[i][2] * self.gain>>
                    ELSE output[i]]]

----------------------------------------------------------------------------
(* The seven variants declared in effects::filter and effects::reverb.     *)
(* Their render is a stateful transform that fills every output index and  *)
(* carries its history across calls: output[i] = input[i] + k * (the       *)
(* frame before input[i]), where the frame before input[1] is the history  *)
(* left by the previous call and k tells the variants apart.               *)

HistoryDefault == [hist |-> ZeroFrame]

Before(self, input, i) == IF i = 1 THEN self.hist ELSE input[i - 1]

HistoryRender(k, self, input, output) ==
    [self |-> [hist |-> IF Len(input) = 0 THEN self.hist
                        ELSE input[Len(input)]],
     output |-> [i \in 1..Len(output) |->
                    IF i <= Len(input)
                    THEN <<input[i][1] + k * Before(self, input, i)[1],
                           input[i][2] + k * Before(self, input, i)[2]>>
                    ELSE output[i]]]

ReverbRender(self, input, output) == HistoryRender(1, self, input, output)
LowPassFilterRender(self, input, output) == HistoryRender(2, self, input, output)
HighPassFilterRender(self, input, output) == HistoryRender(3, self, input, output)
BandPassFilterRender(self, input, output) == HistoryRender(4, self, input, output)
AllPassFilterRender(self, input, output) == HistoryRender(5, self, input, output)
LowShelfFilterRender(self, input, output) == HistoryRender(6, self, input, output)
HighShelfFilterRender(self, input, output) == HistoryRender(7, self, input, output)

----------------------------------------------------------------------------
(* Effect *)

\* A value of the enum: the variant tag and the payload the match arm binds.
MkEffect(kind, v) == [kind |-> kind, v |-> v]

\* impl Default for Effect: Effect::Attenuate(Default::default())
EffectDefault == MkEffect("Attenuate", AttenuateDefault)

\* The default payload of a variant.
VariantDefault(kind) ==
    IF kind = "Attenuate" THEN AttenuateDefault ELSE HistoryDefault

\* static_dispatch!(self, render, input, output): the arm of the active
\* variant calls that variant's render on the payload in place.
StaticDispatchRender(self, input, output) ==
    CASE self.kind = "Attenuate" -> AttenuateRender(self.v, input, output)
      [] self.kind = "Reverb" -> ReverbRender(self.v, input, output)
      [] self.kind = "LowPassFilter" -> LowPassFilterRender(self.v, input, output)
      [] self.kind = "HighPassFilter" -> HighPassFilterRender(self.v, input, output)
      [] self.kind = "BandPassFilter" -> BandPassFilterRender(self.v, input, output)
      [] self.kind = "AllPassFilter" -> AllPassFilterRender(self.v, input, output)
      [] self.kind = "LowShelfFilter" -> LowShelfFilterRender(self.v, input, output)
      [] self.kind = "HighShelfFilter" -> HighShelfFilterRender(self.v, input, output)

\* impl EffectRenderTrait for Effect
EffectRenderShelvesSwapped(self, input, output) ==
    LET r == CASE self.kind = "LowShelfFilter" ->
                      HighShelfFilterRender(self.v, input, output)
               [] self.kind = "HighShelfFilter" ->
                      LowShelfFilterRender(self.v, input, output)
               [] OTHER -> StaticDispatchRender(self, input, output)
    IN  [self |-> MkEffect(self.kind, r.self), output |-> r.output]
EffectRender(self, input, output) ==
    LET r == StaticDispatchRender(self, input, output)
    IN  [self |-> MkEffect(self.kind, r.self), output |-> r.output]

----------------------------------------------------------------------------
(* EffectWrapper *)

\* pub struct EffectWrapper(pub Effect): a tuple struct with the field .0
MkWrapper(effect) == [f0 |-> effect]

\* #[derive(Default)] on EffectWrapper
EffectWrapperDefault == MkWrapper(EffectDefault)

\* Deref / DerefMut: the wrapped Effect, &self.0 / &mut self.0
Deref(w) == w.f0
DerefMutAssign(w, effect) == [w EXCEPT !.f0 = effect]

----------------------------------------------------------------------------
(* Persistence.  A Visitor is a tree of named regions, each holding named  *)
(* fields, and is either writing (save) or reading (load).  The region an  *)
(* Effect is persisted in holds the variant id and the fields of the       *)
(* variant's payload.                                                      *)

NoRegions == [n \in {} |-> 0]
MkVisitor(reading, regions) == [reading |-> reading, regions |-> regions]
\* A fresh Visitor: writing, no region yet.
VisitorNew == MkVisitor(FALSE, NoRegions)
\* The saved data opened for loading.
Reader(vis) == MkVisitor(TRUE, vis.regions)

Put(f, k, x) == [y \in DOMAIN f \cup {k} |-> IF y = k THEN x ELSE f[y]]

\* Visiting one field of a value.  Writing stores the field under its name.
\* Reading takes the stored value; a field the data does not hold leaves
\* the value it had (the default) and is no error.
VisitFieldMissingFails(reading, data, field, value) ==
    IF reading
    THEN IF field \in DOMAIN data
         THEN [value |-> data[field], data |-> data, result |-> "Ok"]
         ELSE [value |-> value, data |-> data, result |-> "Err"]
    ELSE [value |-> value, data |-> Put(data, field, value), result |-> "Ok"]
VisitField(reading, data, field, value) ==
    IF reading
    THEN IF field \in DOMAIN data
         THEN [value |-> data[field], data |-> data, result |-> "Ok"]
         ELSE [value |-> value, data |-> data, result |-> "Ok"]
    ELSE [value |-> value, data |-> Put(data, field, value), result |-> "Ok"]

\* #[derive(Visit)] on struct Attenuate { gain: f32 }: the one field, gain,
\* is visited as it is stored; nothing is clamped.
AttenuateVisitNothing(self, reading, data) ==
    [self |-> self, data |-> data, result |-> "Ok"]
AttenuateVisit(self, reading, data) ==
    LET r == VisitField(reading, data, "gain", self.gain)
    IN  [self |-> [gain |-> r.value], data |-> r.data, result |-> r.result]

\* The variants of effects::filter and effects::reverb persist their state.
HistoryVisit(self, reading, data) ==
    LET r == VisitField(reading, data, "hist", self.hist)
    IN  [self |-> [hist |-> r.value], data |-> r.data, result |-> r.result]

PayloadVisit(kind, v, reading, data) ==
    IF kind = "Attenuate" THEN AttenuateVisit(v, reading, data)
    ELSE HistoryVisit(v, reading, data)

\* #[derive(Visit)] on enum Effect.  The region named `name` is entered
\* (writing: created, an error when it exists; reading: an error when it
\* does not exist).  The variant id is visited; on reading, self becomes
\* the default value of the variant with that id; then the payload is
\* visited in the region.  On an error self and the visitor are as before.
EffectVisit(self, name, vis) ==
    IF vis.reading
    THEN IF name \notin DOMAIN vis.regions
         THEN [self |-> self, visitor |-> vis, result |-> "Err"]
         ELSE LET node == vis.regions[name]
                  r == PayloadVisit(node.id, VariantDefault(node.id), TRUE,
                                    node.data)
              IN  IF r.result = "Ok"
                  THEN [self |-> MkEffect(node.id, r.self), visitor |-> vis,
                        result |-> "Ok"]
                  ELSE [self |-> self, visitor |-> vis, result |-> "Err"]
    ELSE IF name \in DOMAIN vis.regions
         THEN [self |-> self, visitor |-> vis, result |-> "Err"]
         ELSE LET r == PayloadVisit(self.kind, self.v, FALSE, NoRegions)
              IN  [self |-> self,
                   visitor |-> MkVisitor(FALSE,
                       Put(vis.regions, name,
                           [id |-> self.kind, data |-> r.data])),
                   result |-> "Ok"]

\* impl Visit for EffectWrapper: self.0.visit(name, visitor)
OtherKey(name) == CHOOSE n \in NameKeys : n # name
WrapperVisitOtherKey(self, name, vis) ==
    LET r == EffectVisit(self.f0, OtherKey(name), vis)
    IN  [self |-> [self EXCEPT !.f0 = r.self], visitor |-> r.visitor,
         result |-> r.result]
WrapperVisit(self, name, vis) ==
    LET r == EffectVisit(self.f0, name, vis)
    IN  [self |-> [self EXCEPT !.f0 = r.self], visitor |-> r.visitor,
         result |-> r.result]

\* The saved data a visit may be handed: at most one region, holding any
\* variant id and any subset of that variant's fields with any value.
\* A writing Visitor is fresh or holds a region already.
HistFrames == Frames \cup {ZeroFrame}
FieldData(field, values) ==
    {NoRegions} \cup {Put(NoRegions, field, x) : x \in values}
Nodes ==
    {[id |-> "Attenuate", data |-> d] : d \in FieldData("gain", Gains)}
    \cup {[id |-> k, data |-> d] :
             k \in KindSet \ {"Attenuate"}, d \in FieldData("hist", HistFrames)}
RegionMaps ==
    {NoRegions} \cup {Put(NoRegions, n, node) : n \in NameKeys, node \in Nodes}
UsedMaps ==
    {Put(NoRegions, n, [id |-> "Attenuate", data |-> NoRegions]) : n \in NameKeys}
Visitors ==
    {MkVisitor(TRUE, m) : m \in RegionMaps}
    \cup {MkVisitor(FALSE, m) : m \in {NoRegions} \cup UsedMaps}

----------------------------------------------------------------------------
(* The state machine: one EffectWrapper and a record of the last call. *)

VARIABLES
    wrapper,    \* the EffectWrapper
    pre,        \* the wrapper before the last call
    origin,     \* the call the wrapper's Effect value comes from: "default",
                \* "new", "set" or "visit" (a successful load); render keeps it
    last,       \* the last call: "default", "new", "set", "render", "visit"
    arg,        \* the gain handed to the last Attenuate::new
    input,      \* the input buffer of the last render
    outBefore,  \* the output buffer of the last render, before the call
    output,     \* the output buffer of the last render, after the call
    prev,       \* <<[input, output]>> of the render right before the last
                \* render when that call had buffers of equal length and
                \* the two inputs together are no longer than MaxLen
    key,        \* the name key of the last visit
    visitorIn,  \* the Visitor handed to the last visit
    visitor,    \* that Visitor after the call
    result      \* the VisitResult of the last visit

vars == <<wrapper, pre, origin, last, arg, input, outBefore, output, prev, key,
          visitorIn, visitor, result>>

NoRender ==
    /\ input' = << >>
    /\ outBefore' = << >>
    /\ output' = << >>
    /\ prev' = << >>

NoVisit ==
    /\ key' = "a"
    /\ visitorIn' = VisitorNew
    /\ visitor' = VisitorNew
    /\ result' = "Ok"

Init ==
    /\ wrapper = EffectWrapperDefault
    /\ pre = EffectWrapperDefault
    /\ origin = "default"
    /\ last = "default"
    /\ arg = 0
    /\ input = << >>
    /\ outBefore = << >>
    /\ output = << >>
    /\ prev = << >>
    /\ key = "a"
    /\ visitorIn = VisitorNew
    /\ visitor = VisitorNew
    /\ result = "Ok"

\* EffectWrapper::default()
Default ==
    /\ wrapper' = EffectWrapperDefault
    /\ pre' = wrapper
    /\ origin' = "default"
    /\ last' = "default"
    /\ arg' = 0
    /\ NoRender
    /\ NoVisit

\* *wrapper = Effect::Attenuate(Attenuate::new(gain))
New ==
    \E gain \in Gains :
        /\ wrapper' = DerefMutAssign(wrapper,
                                     MkEffect("Attenuate", AttenuateNew(gain)))
        /\ pre' = wrapper
        /\ origin' = "new"
        /\ last' = "new"
        /\ arg' = gain
        /\ NoRender
        /\ NoVisit

\* *wrapper = another variant, freshly constructed
SetVariant ==
    \E kind \in KindSet \ {"Attenuate"} :
        /\ wrapper' = DerefMutAssign(wrapper,
                                     MkEffect(kind, VariantDefault(kind)))
        /\ pre' = wrapper
        /\ origin' = "set"
        /\ last' = "set"
        /\ arg' = 0
        /\ NoRender
        /\ NoVisit

\* wrapper.render(input, output).  The variants other than Attenuate are
\* called with buffers of equal length only.
Render ==
    \E in \in InputBufs, out \in OutputBufs :
        /\ Deref(wrapper).kind # "Attenuate" => Len(in) = Len(out)
        /\ LET r == EffectRender(Deref(wrapper), in, out)
           IN  /\ wrapper' = DerefMutAssign(wrapper, r.self)
               /\ output' = r.output
        /\ pre' = wrapper
        /\ origin' = origin
        /\ last' = "render"
        /\ arg' = 0
        /\ input' = in
        /\ outBefore' = out
        /\ prev' = IF /\ last = "render"
                      /\ Len(input) = Len(outBefore)
                      /\ Len(input) + Len(in) <= MaxLen
                   THEN <<[input |-> input, output |-> output]>>
                   ELSE << >>
        /\ NoVisit

\* wrapper.visit(name, visitor)
Visit ==
    \E name \in NameKeys, vis \in Visitors :
        /\ LET r == WrapperVisit(wrapper, name, vis)
           IN  /\ wrapper' = r.self
               /\ visitor' = r.visitor
               /\ result' = r.result
               /\ origin' = IF vis.reading /\ r.result = "Ok"
                             THEN "visit" ELSE origin
        /\ pre' = wrapper
        /\ last' = "visit"
        /\ arg' = 0
        /\ key' = name
        /\ visitorIn' = vis
        /\ NoRender

Next == Default \/ New \/ SetVariant \/ Render \/ Visit

Spec == Init /\ [][Next]_vars

----------------------------------------------------------------------------
(* Properties *)

Scaled(frame, gain) == <<frame[1] * gain, frame[2] * gain>>
RenderedAttenuate ==
    last = "render" /\ Deref(pre).kind = "Attenuate"

\* C1: after Attenuate{gain: g}.render(I, O) with g >= 0 and O as long as I,
\* every index i has O[i] = (I[i].left * g, I[i].right * g), whatever O held
\* before the call.
C1_RenderScalesEveryFrame ==
    (/\ RenderedAttenuate
     /\ Deref(pre).v.gain >= 0
     /\ Len(input) = Len(outBefore))
    => /\ Len(output) = Len(input)
       /\ \A i \in 1..Len(input) :
              output[i] = Scaled(input[i], Deref(pre).v.gain)

C1_Witness ==
    /\ RenderedAttenuate
    /\ Deref(pre).v.gain = 2
    /\ Len(input) = 2
    /\ outBefore = Fill(<<7, -7>>, 2)
    /\ output = <<Scaled(input[1], 2), Scaled(input[2], 2)>>

\* C2: Attenuate::new(g) stores 0 for every g < 0 and g for every g >= 0;
\* construction is never rejected.
C2_NewClampsGain ==
    last = "new"
    => /\ Deref(wrapper).kind = "Attenuate"
       /\ arg < 0 => Deref(wrapper).v.gain = 0
       /\ arg >= 0 => Deref(wrapper).v.gain = arg

C2_Witness ==
    /\ last = "new"
    /\ arg < 0
    /\ Deref(wrapper).v.gain = 0

\* C3: in every reachable state the stored gain of an Attenuate is >= 0.
C3_GainNeverNegative ==
    Deref(wrapper).kind = "Attenuate" => Deref(wrapper).v.gain >= 0

\* C4: a default-constructed EffectWrapper holds the Attenuate variant with
\* gain exactly 1.0, and rendering any input through it into an output of
\* equal length yields an output equal to the input.
C4_DefaultIsIdentity ==
    origin = "default"
    => /\ Deref(wrapper).kind = "Attenuate"
       /\ Deref(wrapper).v.gain = 1
       /\ (last = "render" /\ Len(input) = Len(outBefore)) => output = input

C4_Witness ==
    /\ origin = "default"
    /\ last = "render"
    /\ Len(input) = 2
    /\ outBefore = Fill(<<7, -7>>, 2)
    /\ output = input

\* The call left the output and the payload that the variant's own render,
\* called directly, returns.
SameAsDirect(r) == output = r.output /\ Deref(wrapper).v = r.self
RenderedKind(kind) == last = "render" /\ Deref(pre).kind = kind

\* C5: for each of the eight variants, Effect::render on an Effect holding
\* that variant leaves the output and the variant state that the variant's
\* own render leaves for the same input, and the variant tag is unchanged.
C5_DispatchMatchesVariant ==
    last = "render"
    => /\ Deref(wrapper).kind = Deref(pre).kind
       /\ RenderedKind("Attenuate") =>
              SameAsDirect(AttenuateRender(Deref(pre).v, input, outBefore))
       /\ RenderedKind("Reverb") =>
              SameAsDirect(ReverbRender(Deref(pre).v, input, outBefore))
       /\ RenderedKind("LowPassFilter") =>
              SameAsDirect(LowPassFilterRender(Deref(pre).v, input, outBefore))
       /\ RenderedKind("HighPassFilter") =>
              SameAsDirect(HighPassFilterRender(Deref(pre).v, input, outBefore))
       /\ RenderedKind("BandPassFilter") =>
              SameAsDirect(BandPassFilterRender(Deref(pre).v, input, outBefore))
       /\ RenderedKind("AllPassFilter") =>
              SameAsDirect(AllPassFilterRender(Deref(pre).v, input, outBefore))
       /\ RenderedKind("LowShelfFilter") =>
              SameAsDirect(LowShelfFilterRender(Deref(pre).v, input, outBefore))
       /\ RenderedKind("HighShelfFilter") =>
              SameAsDirect(HighShelfFilterRender(Deref(pre).v, input, outBefore))

C5_Witness ==
    /\ RenderedKind("HighShelfFilter")
    /\ Deref(pre).v.hist # ZeroFrame
    /\ Len(input) = 2
    /\ Deref(wrapper).v.hist = input[2]

\* The Effect values: an Attenuate with any stored gain, and every other
\* variant with any history.
EffectValues ==
    {MkEffect("Attenuate", [gain |-> g]) : g \in Gains}
    \cup {MkEffect(k, [hist |-> h]) :
             k \in KindSet \ {"Attenuate"}, h \in HistFrames}

\* C6: persisting an EffectWrapper under a name key leaves the visitor, the
\* result and the inner Effect exactly as persisting the inner Effect
\* directly under that key does; the wrapper adds no node of its own.
C6_WrapperVisitIsTransparent ==
    last = "visit"
    => LET direct == EffectVisit(Deref(pre), key, visitorIn)
       IN  /\ visitor = direct.visitor
           /\ result = direct.result
           /\ wrapper = MkWrapper(direct.self)

C6_Witness ==
    /\ last = "visit"
    /\ ~visitorIn.reading
    /\ result = "Ok"
    /\ Deref(pre).kind = "Attenuate"
    /\ DOMAIN visitor.regions = {key}
    /\ visitor.regions[key].data["gain"] = Deref(pre).v.gain

\* What saving the Effect e under the key n into a fresh Visitor leaves,
\* opened for loading.
Saved(e, n) == Reader(EffectVisit(e, n, VisitorNew).visitor)

LoadedAttenuateWithoutGain ==
    /\ last = "visit"
    /\ visitorIn.reading
    /\ key \in DOMAIN visitorIn.regions
    /\ visitorIn.regions[key].id = "Attenuate"
    /\ "gain" \notin DOMAIN visitorIn.regions[key].data

C9_BackToBackIsConcatenation ==
    RenderedAttenuate
    => /\ Deref(wrapper) = Deref(pre)
       /\ (prev # << >> /\ Len(input) = Len(outBefore))
          => LET whole == prev[1].input \o input
                 stale == Fill(<<7, -7>>, Len(whole))
             IN  prev[1].output \o output
                     = AttenuateRender(Deref(pre).v, whole, stale).output

C9_Witness ==
    /\ RenderedAttenuate
    /\ Deref(pre).v.gain = 2
    /\ prev # << >>
    /\ Len(prev[1].input) = 1
    /\ Len(input) = 1
    /\ Len(outBefore) = 1
    /\ prev[1].input # input

\* C10: Attenuate::render with len(input) # len(output) returns normally,
\* writes exactly the first min(len(input), len(output)) output frames as
\* input[i] * gain and leaves every later output frame unchanged.
C10_MismatchWritesCommonPrefix ==
    (RenderedAttenuate /\ Len(input) # Len(outBefore))
    => /\ Len(output) = Len(outBefore)
       /\ Deref(wrapper) = Deref(pre)
       /\ \A i \in 1..Len(output) :
              output[i] = IF i <= Min(Len(input), Len(outBefore))
                          THEN Scaled(input[i], Deref(pre).v.gain)
                          ELSE outBefore[i]

C10_Witness ==
    /\ RenderedAttenuate
    /\ Deref(pre).v.gain = 2
    /\ Len(input) = 1
    /\ outBefore = Fill(<<7, -7>>, 2)
    /\ output = <<Scaled(input[1], 2), <<7, -7>>>>

====
